---- MODULE Spec2Model ----
(***************************************************************************)
(* A model of the On/Off (0x0006) and Level Control (0x0008) clusters of   *)
(* the matter-rs data model: cluster_on_off.rs and                         *)
(* cluster_level_control.rs.  The base Cluster / Attribute objects         *)
(* (data_model::objects) are not part of the sources at hand; they are     *)
(* modelled from the specification's section 4.1 / 4.2.                    *)
(***************************************************************************)
EXTENDS Integers, Sequences, FiniteSets, TLC

VARIABLES
    onoff_base,    \* OnOffCluster.base: the attribute list of the On/Off cluster
    callbacks,     \* OnOffCluster.callbacks: Vec<ClusterCallback>, by command name
    update_state,  \* OnOffCluster.update_state: the mutex-guarded UpdateData
    level_base,    \* LevelControlCluster.base: the attribute list of Level Control
    op,            \* name of the operation performed last
    cmd_req,       \* the CommandReq handled last, with the status returned for it
    events,        \* side effects of the last handler, in the order they happened
    before,        \* attribute list of the addressed cluster when the handler started
    prev,          \* summary of the operation before the last one, when a command
    read,          \* the last read_attribute call: its inputs and the encoder's output
    conc           \* the mutex of update_state and the threads stepping under it

vars == <<onoff_base, callbacks, update_state, level_base, op, cmd_req, events,
          before, prev, read, conc>>

----------------------------------------------------------------------------
(* Bounds of the model *)

MaxCallbacks == 2
MaxPayloadLen == 5

----------------------------------------------------------------------------
(* Identifiers of the source *)

OnOff_ID == 6
Level_ID == 8

OnOff_Attr_OnOff == 0

OnOff_Cmd_Off == 0
OnOff_Cmd_On == 1
OnOff_Cmd_Toggle == 2

Level_Attr_CurrentLevel == 0
Level_Attr_RemainingTime == 1
Level_Attr_MinLevel == 2
Level_Attr_MaxLevel == 3
Level_Attr_OnLevel == 17
Level_Attr_Options == 15
Level_Attr_StartUpCurrentLevel == 16384

Level_Cmd_MoveToLevel == 0
Level_Cmd_Move == 1
Level_Cmd_Step == 2
Level_Cmd_Stop == 3
Level_Cmd_MoveToLevelWithOnOff == 4
Level_Cmd_MoveWithOnOff == 5
Level_Cmd_StepWithOnOff == 6
Level_Cmd_StopWithOnOff == 7
Level_Cmd_MoveToClosestFrequency == 8

Level_Default_MaxLevel == 254

\* path.leaf is an Option<u32>: None is written NoLeaf
NoLeaf == -1
\* the system attribute the base cluster carries (FeatureMap)
Attr_FeatureMap == 65532
SystemAttrFirst == 61440
SystemAttrLast == 65534

U8_MAX == 255

----------------------------------------------------------------------------
(* AttrValue, Attribute and the base Cluster *)

Bool(b) == [t |-> "Bool", v |-> IF b THEN 1 ELSE 0]
Uint8(n) == [t |-> "Uint8", v |-> n]
Uint32(n) == [t |-> "Uint32", v |-> n]
Custom == [t |-> "Custom", v |-> 0]
NoValue == [t |-> "None", v |-> 0]

Access_RV == {"READ", "NEED_VIEW"}
Quality_PERSISTENT == {"PERSISTENT"}
Quality_NONE == {}

Attribute_new(id, value, access, quality) ==
    [id |-> id, value |-> value, access |-> access, quality |-> quality]

is_system_attr(id) == id >= SystemAttrFirst /\ id <= SystemAttrLast

\* Cluster::new: the base starts with its system attributes and no user attribute
Cluster_new ==
    << Attribute_new(Attr_FeatureMap, Uint32(0), Access_RV, Quality_NONE) >>

\* position of the attribute with this id in the list, 0 when there is none
AttrIndex(base, id) ==
    IF \E i \in DOMAIN base : base[i].id = id
    THEN CHOOSE i \in DOMAIN base :
            /\ base[i].id = id
            /\ \A j \in 1..(i - 1) : base[j].id # id
    ELSE 0

\* add_attribute: append; a duplicate id fails and leaves the list alone
add_attribute(base, a) ==
    IF AttrIndex(base, a.id) # 0 THEN base ELSE Append(base, a)

RECURSIVE add_attributes(_, _)
add_attributes(base, attrs) ==
    IF attrs = <<>> THEN base
    ELSE add_attributes(add_attribute(base, Head(attrs)), Tail(attrs))

read_attribute_raw(base, id) ==
    LET i == AttrIndex(base, id) IN
    IF i = 0 THEN [err |-> "AttributeNotFound", value |-> NoValue]
    ELSE [err |-> "Ok", value |-> base[i].value]

\* write_attribute_raw: type-preserving, honours Fixed; a successful write of a
\* Persistent attribute records a dirty marker for the external store
write_attribute_raw(base, id, value) ==
    LET i == AttrIndex(base, id) IN
    IF i = 0 THEN [err |-> "AttributeNotFound", base |-> base, events |-> <<>>]
    ELSE IF "FIXED" \in base[i].quality
    THEN [err |-> "AccessDenied", base |-> base, events |-> <<>>]
    ELSE IF base[i].value.t # value.t
    THEN [err |-> "InvalidDataType", base |-> base, events |-> <<>>]
    ELSE [err |-> "Ok",
          base |-> [base EXCEPT ![i].value = value],
          events |-> << [e |-> "write", n |-> value.v] >> \o
                     (IF "PERSISTENT" \in base[i].quality
                      THEN << [e |-> "dirty", n |-> id] >> ELSE <<>>)]

\* a TLV element: an unsigned integer of a wire type
Elem(t, v) == [t |-> t, v |-> v]

\* write_attribute_from_tlv: decode the element as the attribute's variant
write_attribute_from_tlv(base, id, elem) ==
    LET i == AttrIndex(base, id) IN
    IF i = 0 THEN [status |-> "UnsupportedAttribute", base |-> base, events |-> <<>>]
    ELSE IF base[i].value.t = "Uint8" /\ elem.t = "u8"
    THEN LET w == write_attribute_raw(base, id, Uint8(elem.v)) IN
         [status |-> IF w.err = "Ok" THEN "Sucess" ELSE "UnsupportedWrite",
          base |-> w.base, events |-> w.events]
    ELSE IF base[i].value.t = "Uint8" /\ elem.v > U8_MAX
    THEN [status |-> "ConstraintError", base |-> base, events |-> <<>>]
    ELSE [status |-> "InvalidDataType", base |-> base, events |-> <<>>]

----------------------------------------------------------------------------
(* cluster_on_off.rs *)

attr_on_off_new ==
    Attribute_new(OnOff_Attr_OnOff, Bool(FALSE), Access_RV, Quality_PERSISTENT)

\* OnOffCluster::new
OnOffCluster_new ==
    [base |-> add_attribute(Cluster_new, attr_on_off_new),
     callbacks |-> <<>>,
     update_state |-> [on_off |-> FALSE, is_fresh |-> FALSE]]

\* UpdateData::update_state
UpdateData_update_state(state) == [on_off |-> state, is_fresh |-> TRUE]

\* from_u32 with a catch-all arm: any other id is taken for Toggle
OnOff_from_u32_CatchAll(leaf) ==
    IF leaf = OnOff_Cmd_Off THEN "Off"
    ELSE IF leaf = OnOff_Cmd_On THEN "On"
    ELSE "Toggle"

\* num::FromPrimitive::from_u32 for the On/Off Commands; "None" when not enumerated
OnOff_from_u32(leaf) ==
    IF leaf = OnOff_Cmd_Off THEN "Off"
    ELSE IF leaf = OnOff_Cmd_On THEN "On"
    ELSE IF leaf = OnOff_Cmd_Toggle THEN "Toggle"
    ELSE "None"

OnOffCommands == {"Off", "On", "Toggle"}

\* OnOffCluster::add_callback
add_callback(cbs, cmd) == Append(cbs, cmd)

\* run_callback without the test of cb.name: every callback is invoked
run_callback_NoFilter(cbs, cmd) ==
    [i \in 1..Len(cbs) |-> [e |-> "callback", n |-> i]]

\* OnOffCluster::run_callback: the callbacks invoked, in the order of the walk
run_callback(cbs, cmd) ==
    SelectSeq([i \in 1..Len(cbs) |-> [e |-> "callback", n |-> i]],
              LAMBDA x : cbs[x.n] = cmd)

Complete == << [e |-> "complete", n |-> 0] >>

Result(status, base, evs, completed) ==
    [status |-> status, base |-> base, events |-> evs, completed |-> completed]

\* Off with the guard inverted: the write happens only when OnOff is false already
OnOff_Off_InvertedGuard(base, cbs) ==
    LET r == read_attribute_raw(base, OnOff_Attr_OnOff)
        w == IF Bool(FALSE) = r.value
             THEN write_attribute_raw(base, OnOff_Attr_OnOff, Bool(FALSE))
             ELSE [err |-> "Ok", base |-> base, events |-> <<>>]
    IN  IF r.err # "Ok" THEN Result("Panic", base, <<>>, FALSE)
        ELSE IF w.err # "Ok" THEN Result("Failure", base, <<>>, FALSE)
        ELSE Result("Sucess", w.base,
                    w.events \o run_callback(cbs, "Off") \o Complete, TRUE)

\* handle_command, Commands::Off
OnOff_Off(base, cbs) ==
    LET r == read_attribute_raw(base, OnOff_Attr_OnOff)
        w == IF Bool(TRUE) = r.value
             THEN write_attribute_raw(base, OnOff_Attr_OnOff, Bool(FALSE))
             ELSE [err |-> "Ok", base |-> base, events |-> <<>>]
    IN  IF r.err # "Ok" THEN Result("Panic", base, <<>>, FALSE)
        ELSE IF w.err # "Ok" THEN Result("Failure", base, <<>>, FALSE)
        ELSE Result("Sucess", w.base,
                    w.events \o run_callback(cbs, "Off") \o Complete, TRUE)

\* On without the guard: the attribute is written whatever its value
OnOff_On_AlwaysWrites(base, cbs) ==
    LET w == write_attribute_raw(base, OnOff_Attr_OnOff, Bool(TRUE)) IN
    IF w.err # "Ok" THEN Result("Failure", base, <<>>, FALSE)
    ELSE Result("Sucess", w.base,
                w.events \o run_callback(cbs, "On") \o Complete, TRUE)

\* handle_command, Commands::On
OnOff_On(base, cbs) ==
    LET r == read_attribute_raw(base, OnOff_Attr_OnOff)
        w == IF Bool(FALSE) = r.value
             THEN write_attribute_raw(base, OnOff_Attr_OnOff, Bool(TRUE))
             ELSE [err |-> "Ok", base |-> base, events |-> <<>>]
    IN  IF r.err # "Ok" THEN Result("Panic", base, <<>>, FALSE)
        ELSE IF w.err # "Ok" THEN Result("Failure", base, <<>>, FALSE)
        ELSE Result("Sucess", w.base,
                    w.events \o run_callback(cbs, "On") \o Complete, TRUE)

\* Toggle that writes true instead of the negation of the value read
OnOff_Toggle_WritesTrue(base, cbs) ==
    LET w == write_attribute_raw(base, OnOff_Attr_OnOff, Bool(TRUE)) IN
    IF w.err # "Ok" THEN Result("Failure", base, <<>>, FALSE)
    ELSE Result("Sucess", w.base,
                w.events \o run_callback(cbs, "Toggle") \o Complete, TRUE)

\* Toggle that drops the result of the write: callbacks and completion follow anyway
OnOff_Toggle_IgnoresWriteError(base, cbs) ==
    LET r == read_attribute_raw(base, OnOff_Attr_OnOff)
        value == IF r.value.t = "Bool" THEN r.value.v = 1 ELSE FALSE
        w == write_attribute_raw(base, OnOff_Attr_OnOff, Bool(~value))
    IN  IF r.err # "Ok" THEN Result("Panic", base, <<>>, FALSE)
        ELSE Result("Sucess", w.base,
                    w.events \o run_callback(cbs, "Toggle") \o Complete, TRUE)

\* handle_command, Commands::Toggle
OnOff_Toggle(base, cbs) ==
    LET r == read_attribute_raw(base, OnOff_Attr_OnOff)
        value == IF r.value.t = "Bool" THEN r.value.v = 1 ELSE FALSE
        w == write_attribute_raw(base, OnOff_Attr_OnOff, Bool(~value))
    IN  IF r.err # "Ok" THEN Result("Panic", base, <<>>, FALSE)
        ELSE IF w.err # "Ok" THEN Result("Failure", base, <<>>, FALSE)
        ELSE Result("Sucess", w.base,
                    w.events \o run_callback(cbs, "Toggle") \o Complete, TRUE)

\* OnOffCluster::handle_command
OnOff_handle_command(base, cbs, leaf) ==
    LET cmd == IF leaf = NoLeaf THEN "None" ELSE OnOff_from_u32(leaf) IN
    IF cmd = "None" THEN Result("UnsupportedCommand", base, <<>>, FALSE)
    ELSE IF cmd = "Off" THEN OnOff_Off(base, cbs)
    ELSE IF cmd = "On" THEN OnOff_On(base, cbs)
    ELSE OnOff_Toggle(base, cbs)

EncValue(val) == [kind |-> "Value", status |-> "None", value |-> val]
EncStatus(code) == [kind |-> "Status", status |-> code, value |-> NoValue]
EncSystem(a) == [kind |-> "System", status |-> "None", value |-> a.value]
EncCustom(id) == [kind |-> "Custom", status |-> "None", value |-> NoValue]

\* read_attribute that never consults the shared state
OnOff_read_attribute_StoredOnly(base, shared, attr_id, allow) ==
    LET i == AttrIndex(base, attr_id) IN
    IF i = 0 THEN << EncStatus("UnsupportedAttribute") >>
    ELSE IF ~allow THEN << EncStatus("UnsupportedAccess") >>
    ELSE IF "READ" \notin base[i].access THEN << EncStatus("UnsupportedRead") >>
    ELSE IF is_system_attr(attr_id) THEN << EncSystem(base[i]) >>
    ELSE << EncValue(base[i].value) >>

\* read_attribute that lets the missing Read bit win over the ACL's denial
OnOff_read_attribute_ReadBitWins(base, shared, attr_id, allow) ==
    LET i == AttrIndex(base, attr_id) IN
    IF i = 0 THEN << EncStatus("UnsupportedAttribute") >>
    ELSE
      LET a == base[i]
          e1 == IF ~allow THEN "UnsupportedAccess" ELSE "Sucess"
          error == IF "READ" \notin a.access THEN "UnsupportedRead" ELSE e1
      IN  IF error # "Sucess" THEN << EncStatus(error) >>
          ELSE IF is_system_attr(attr_id) THEN << EncSystem(a) >>
          ELSE IF a.value # Custom
          THEN IF shared.is_fresh
               THEN << EncValue(Bool(shared.on_off)) >>
               ELSE << EncValue(a.value) >>
          ELSE << EncCustom(attr_id) >>

\* OnOffCluster::read_attribute: what the encoder receives
OnOff_read_attribute(base, shared, attr_id, allow) ==
    LET i == AttrIndex(base, attr_id) IN
    IF i = 0 THEN << EncStatus("UnsupportedAttribute") >>
    ELSE
      LET a == base[i]
          e1 == IF "READ" \notin a.access THEN "UnsupportedRead" ELSE "Sucess"
          error == IF ~allow THEN "UnsupportedAccess" ELSE e1
      IN  IF error # "Sucess" THEN << EncStatus(error) >>
          ELSE IF is_system_attr(attr_id) THEN << EncSystem(a) >>
          ELSE IF a.value # Custom
          THEN IF shared.is_fresh
               THEN << EncValue(Bool(shared.on_off)) >>
               ELSE << EncValue(a.value) >>
          ELSE << EncCustom(attr_id) >>

----------------------------------------------------------------------------
(* cluster_level_control.rs *)

\* LevelControlCluster::new: the five attributes of the attrs array
LevelControlCluster_new ==
    add_attributes(Cluster_new,
        << Attribute_new(Level_Attr_CurrentLevel, Uint8(0), Access_RV, Quality_PERSISTENT),
           Attribute_new(Level_Attr_OnLevel, Uint8(0), Access_RV, Quality_PERSISTENT),
           Attribute_new(Level_Attr_MinLevel, Uint8(0), Access_RV, Quality_PERSISTENT),
           Attribute_new(Level_Attr_MaxLevel, Uint8(Level_Default_MaxLevel), Access_RV,
                         Quality_PERSISTENT),
           Attribute_new(Level_Attr_StartUpCurrentLevel, Uint8(0), Access_RV,
                         Quality_PERSISTENT) >>)

\* MoveMode::from_int / StepMode::from_int
Mode_from_int(src) == IF src = 0 THEN "Up" ELSE "Down"

\* num::FromPrimitive::from_u32 for the Level Control Commands
Level_from_u32(leaf) ==
    IF leaf >= Level_Cmd_MoveToLevel /\ leaf <= Level_Cmd_MoveToClosestFrequency
    THEN leaf ELSE NoLeaf

\* TLVElement::enter and the iterator's next: the n-th positional element
HasElem(data, n) == data.container /\ Len(data.elems) >= n
\* TLVElement::u8: only an element of wire type u8 is accepted
IsU8(elem) == elem.t = "u8"

\* move_level that carries the move out at once, to the limit of the direction
move_level_JumpsToLimit(base, move_mode, rate) ==
    LET limit == IF move_mode = "Up" THEN Level_Attr_MaxLevel ELSE Level_Attr_MinLevel
        w == write_attribute_raw(base, Level_Attr_CurrentLevel,
                                 read_attribute_raw(base, limit).value)
    IN  Result("Sucess", w.base, w.events, FALSE)

\* move_level: both arms only log
move_level(base, move_mode, rate) ==
    IF move_mode = "Up" THEN Result("Sucess", base, <<>>, FALSE)
    ELSE Result("Sucess", base, <<>>, FALSE)

\* handle_move_to_lvl that takes the second positional element for the level
handle_move_to_lvl_WrongElement(base, data) ==
    IF ~data.container THEN Result("Invalid", base, <<>>, FALSE)
    ELSE IF ~HasElem(data, 4) THEN Result("InvalidDataType", base, <<>>, FALSE)
    ELSE LET w == write_attribute_from_tlv(base, Level_Attr_CurrentLevel, data.elems[2])
         IN  Result(w.status, w.base, w.events, FALSE)

handle_move_to_lvl(base, data) ==
    IF ~data.container THEN Result("Invalid", base, <<>>, FALSE)
    ELSE IF ~HasElem(data, 4) THEN Result("InvalidDataType", base, <<>>, FALSE)
    ELSE LET w == write_attribute_from_tlv(base, Level_Attr_CurrentLevel, data.elems[1])
         IN  Result(w.status, w.base, w.events, FALSE)

handle_move(base, data) ==
    IF ~HasElem(data, 1) THEN Result("Invalid", base, <<>>, FALSE)
    ELSE IF ~IsU8(data.elems[1]) THEN Result("InvalidDataType", base, <<>>, FALSE)
    ELSE IF ~HasElem(data, 2) THEN Result("Invalid", base, <<>>, FALSE)
    ELSE IF ~IsU8(data.elems[2]) THEN Result("InvalidDataType", base, <<>>, FALSE)
    ELSE IF ~HasElem(data, 4) THEN Result("Invalid", base, <<>>, FALSE)
    ELSE move_level(base, Mode_from_int(data.elems[1].v), data.elems[2].v)

handle_stop(base, data) ==
    IF ~HasElem(data, 2) THEN Result("Invalid", base, <<>>, FALSE)
    ELSE LET w == write_attribute_raw(base, Level_Attr_RemainingTime, Uint8(0)) IN
         IF w.err # "Ok" THEN Result("Failure", base, <<>>, FALSE)
         ELSE Result("Sucess", w.base, w.events, FALSE)

\* handle_step that does not ask for the fifth element (the transition time)
handle_step_FourElements(base, data) ==
    IF ~HasElem(data, 1) THEN Result("Invalid", base, <<>>, FALSE)
    ELSE IF ~IsU8(data.elems[1]) THEN Result("InvalidDataType", base, <<>>, FALSE)
    ELSE IF ~HasElem(data, 2) THEN Result("Invalid", base, <<>>, FALSE)
    ELSE IF ~IsU8(data.elems[2]) THEN Result("InvalidDataType", base, <<>>, FALSE)
    ELSE IF ~HasElem(data, 4) THEN Result("Invalid", base, <<>>, FALSE)
    ELSE IF read_attribute_raw(base, Level_Attr_CurrentLevel).err # "Ok"
    THEN Result("AttributeNotFound", base, <<>>, FALSE)
    ELSE Result("Sucess", base, <<>>, FALSE)

\* handle_step: the payload is walked and CurrentLevel is read; the call of
\* step_level is commented out, so nothing is written
handle_step(base, data) ==
    IF ~HasElem(data, 1) THEN Result("Invalid", base, <<>>, FALSE)
    ELSE IF ~IsU8(data.elems[1]) THEN Result("InvalidDataType", base, <<>>, FALSE)
    ELSE IF ~HasElem(data, 2) THEN Result("Invalid", base, <<>>, FALSE)
    ELSE IF ~IsU8(data.elems[2]) THEN Result("InvalidDataType", base, <<>>, FALSE)
    ELSE IF ~HasElem(data, 5) THEN Result("Invalid", base, <<>>, FALSE)
    ELSE IF read_attribute_raw(base, Level_Attr_CurrentLevel).err # "Ok"
    THEN Result("AttributeNotFound", base, <<>>, FALSE)
    ELSE Result("Sucess", base, <<>>, FALSE)

handle_move_to_lvl_with_onoff(base, data) == Result("Sucess", base, <<>>, FALSE)
handle_move_with_onoff(base, data) == Result("Sucess", base, <<>>, FALSE)
handle_step_with_onoff(base, data) == Result("Sucess", base, <<>>, FALSE)
handle_stop_with_onoff(base, data) == Result("Sucess", base, <<>>, FALSE)

\* LevelControlCluster::handle_command
Level_handle_command(base, leaf, data) ==
    LET cmd == IF leaf = NoLeaf THEN NoLeaf ELSE Level_from_u32(leaf) IN
    IF cmd = NoLeaf THEN Result("UnsupportedCommand", base, <<>>, FALSE)
    ELSE IF cmd = Level_Cmd_MoveToLevel THEN handle_move_to_lvl(base, data)
    ELSE IF cmd = Level_Cmd_Move THEN handle_move(base, data)
    ELSE IF cmd = Level_Cmd_Step THEN handle_step(base, data)
    ELSE IF cmd = Level_Cmd_Stop THEN handle_stop(base, data)
    ELSE IF cmd = Level_Cmd_MoveToLevelWithOnOff
    THEN handle_move_to_lvl_with_onoff(base, data)
    ELSE IF cmd = Level_Cmd_MoveWithOnOff THEN handle_move_with_onoff(base, data)
    ELSE IF cmd = Level_Cmd_StepWithOnOff THEN handle_step_with_onoff(base, data)
    ELSE IF cmd = Level_Cmd_StopWithOnOff THEN handle_stop_with_onoff(base, data)
    ELSE Result("Sucess", base, <<>>, FALSE)

----------------------------------------------------------------------------
(* Inputs *)

\* u8 values the payloads carry, and one element of a wider wire type
U8Values == {0, 10, 250, 255}
ElemSet == {Elem("u8", v) : v \in U8Values} \cup {Elem("u16", 300)}
SecondElems == {Elem("u8", 10), Elem("u16", 300)}
Filler == Elem("u8", 0)

Payload(elems) == [container |-> TRUE, elems |-> elems]
NotContainer == [container |-> FALSE, elems |-> <<>>]
EmptyPayload == Payload(<<>>)

\* payloads of every length up to MaxPayloadLen; the handlers look at the value
\* of the first two elements only
Payloads ==
    {NotContainer} \cup
    { Payload([i \in 1..n |-> IF i = 1 THEN a ELSE IF i = 2 THEN b ELSE Filler]) :
        n \in 0..MaxPayloadLen, a \in ElemSet, b \in SecondElems }

\* the payloads used when both clusters run side by side
NodePayloads ==
    {NotContainer} \cup
    { Payload([i \in 1..MaxPayloadLen |-> IF i = 1 THEN a ELSE Filler]) :
        a \in {Elem("u8", 10), Elem("u8", 255)} }

\* command ids: absent, enumerated, and 0xFF, which neither cluster enumerates
OnOffLeafs == {NoLeaf, OnOff_Cmd_Off, OnOff_Cmd_On, OnOff_Cmd_Toggle, 255}
LevelLeafs == {NoLeaf, 255} \cup
              (Level_Cmd_MoveToLevel..Level_Cmd_MoveToClosestFrequency)
\* attribute ids read: OnOff, an id the cluster lacks, a system attribute
ReadAttrIds == {OnOff_Attr_OnOff, 1, Attr_FeatureMap}

----------------------------------------------------------------------------
(* State machine *)

NoReq == [cluster |-> 0, leaf |-> NoLeaf, data |-> NotContainer,
          status |-> "None", completed |-> FALSE]
NoPrev == [valid |-> FALSE, cluster |-> 0, leaf |-> NoLeaf, data |-> NotContainer,
           status |-> "None", before |-> <<>>, events |-> <<>>]
NoRead == [attr_id |-> 0, allow |-> FALSE, encoder |-> <<>>]

\* the Mutex<UpdateData> is free, the event source has not entered update_state
\* and no read_attribute is inside its locked section
NoThreads == [mutex |-> "free", upd_pc |-> "idle", upd_arg |-> FALSE,
              rd_pc |-> "idle", rd_fresh |-> FALSE,
              snap |-> [on_off |-> FALSE, is_fresh |-> FALSE]]

\* the command handled last, as the next operation remembers it; prev is valid
\* only when the operation right before the last one was a command
Summary ==
    IF op = "handle_command"
    THEN [valid |-> TRUE, cluster |-> cmd_req.cluster, leaf |-> cmd_req.leaf,
          data |-> cmd_req.data, status |-> cmd_req.status, before |-> before,
          events |-> events]
    ELSE NoPrev

Init ==
    /\ onoff_base = OnOffCluster_new.base
    /\ callbacks = OnOffCluster_new.callbacks
    /\ update_state = OnOffCluster_new.update_state
    /\ level_base = LevelControlCluster_new
    /\ op = "new"
    /\ cmd_req = NoReq
    /\ events = <<>>
    /\ before = <<>>
    /\ prev = NoPrev
    /\ read = NoRead
    /\ conc = NoThreads

\* OnOffCluster::add_callback(cmd, cb)
AddCallback(cmd) ==
    /\ Len(callbacks) < MaxCallbacks
    /\ callbacks' = add_callback(callbacks, cmd)
    /\ op' = "add_callback"
    /\ cmd_req' = NoReq /\ events' = <<>> /\ before' = <<>>
    /\ prev' = NoPrev /\ read' = NoRead
    /\ UNCHANGED <<onoff_base, update_state, level_base, conc>>

\* update_state that also stores the reported value in the OnOff attribute
UpdateState_StoresAttribute(state) ==
    /\ update_state' = UpdateData_update_state(state)
    /\ onoff_base' = write_attribute_raw(onoff_base, OnOff_Attr_OnOff, Bool(state)).base
    /\ op' = "update_state"
    /\ cmd_req' = NoReq /\ events' = <<>> /\ before' = <<>>
    /\ prev' = Summary /\ read' = NoRead
    /\ UNCHANGED <<callbacks, level_base, conc>>

\* the external event source: update_state.lock().update_state(state)
UpdateState(state) ==
    /\ update_state' = UpdateData_update_state(state)
    /\ op' = "update_state"
    /\ cmd_req' = NoReq /\ events' = <<>> /\ before' = <<>>
    /\ prev' = Summary /\ read' = NoRead
    /\ UNCHANGED <<onoff_base, callbacks, level_base, conc>>

\* read_attribute under a clear-on-read policy: the read consumes the fresh value
OnOffReadAttribute_ClearsFresh(attr_id, allow) ==
    /\ read' = [attr_id |-> attr_id, allow |-> allow,
                encoder |-> OnOff_read_attribute(onoff_base, update_state,
                                                 attr_id, allow)]
    /\ op' = "read_attribute"
    /\ cmd_req' = NoReq /\ events' = <<>> /\ before' = <<>>
    /\ prev' = Summary
    /\ update_state' = [update_state EXCEPT !.is_fresh = FALSE]
    /\ UNCHANGED <<onoff_base, callbacks, level_base, conc>>

\* OnOffCluster::read_attribute(access_req, encoder, attr)
OnOffReadAttribute(attr_id, allow) ==
    /\ read' = [attr_id |-> attr_id, allow |-> allow,
                encoder |-> OnOff_read_attribute(onoff_base, update_state,
                                                 attr_id, allow)]
    /\ op' = "read_attribute"
    /\ cmd_req' = NoReq /\ events' = <<>> /\ before' = <<>>
    /\ prev' = Summary
    /\ UNCHANGED <<onoff_base, callbacks, update_state, level_base, conc>>

\* OnOffCluster::handle_command(cmd_req)
OnOffHandleCommand(leaf) ==
    LET r == OnOff_handle_command(onoff_base, callbacks, leaf) IN
    /\ onoff_base' = r.base
    /\ cmd_req' = [cluster |-> OnOff_ID, leaf |-> leaf, data |-> EmptyPayload,
                   status |-> r.status, completed |-> r.completed]
    /\ events' = r.events
    /\ before' = onoff_base
    /\ prev' = Summary
    /\ op' = "handle_command"
    /\ read' = NoRead
    /\ UNCHANGED <<callbacks, update_state, level_base, conc>>

\* LevelControlCluster::handle_command(cmd_req); of the commands before it only
\* a successful Step right before a successful Step is remembered in prev
LevelHandleCommand(leaf, data) ==
    LET r == Level_handle_command(level_base, leaf, data)
        step_pair == /\ leaf = Level_Cmd_Step /\ r.status = "Sucess"
                     /\ op = "handle_command" /\ cmd_req.cluster = Level_ID
                     /\ cmd_req.leaf = Level_Cmd_Step /\ cmd_req.status = "Sucess"
    IN
    /\ level_base' = r.base
    /\ cmd_req' = [cluster |-> Level_ID, leaf |-> leaf, data |-> data,
                   status |-> r.status, completed |-> r.completed]
    /\ events' = r.events
    /\ before' = level_base
    /\ prev' = IF step_pair THEN Summary ELSE NoPrev
    /\ op' = "handle_command"
    /\ read' = NoRead
    /\ UNCHANGED <<onoff_base, callbacks, update_state, conc>>

OnOffNext ==
    \/ \E cmd \in OnOffCommands : AddCallback(cmd)
    \/ \E state \in BOOLEAN : UpdateState(state)
    \/ \E attr_id \in ReadAttrIds, allow \in BOOLEAN : OnOffReadAttribute(attr_id, allow)
    \/ \E leaf \in OnOffLeafs : OnOffHandleCommand(leaf)

LevelNext ==
    \E leaf \in LevelLeafs, data \in Payloads : LevelHandleCommand(leaf, data)

\* the command surface of an endpoint hosting both clusters: callbacks are
\* registered and commands are dispatched to either cluster
Next ==
    \/ \E cmd \in OnOffCommands : AddCallback(cmd)
    \/ \E leaf \in OnOffLeafs : OnOffHandleCommand(leaf)
    \/ \E leaf \in LevelLeafs, data \in NodePayloads : LevelHandleCommand(leaf, data)

\* The base is handed out by base_mut(): the host may have replaced the OnOff
\* attribute by one of another variant or made it Fixed before commands arrive.
HostOnOffAttrs ==
    { Attribute_new(OnOff_Attr_OnOff, v, acc, q) :
        v \in {Bool(FALSE), Bool(TRUE), Uint8(0)},
        acc \in {Access_RV, Access_RV \ {"READ"}},
        q \in {Quality_PERSISTENT, Quality_PERSISTENT \cup {"FIXED"}} }

InitHost ==
    /\ onoff_base \in {add_attribute(Cluster_new, a) : a \in HostOnOffAttrs}
    /\ callbacks = OnOffCluster_new.callbacks
    /\ update_state = OnOffCluster_new.update_state
    /\ level_base = LevelControlCluster_new
    /\ op = "new"
    /\ cmd_req = NoReq
    /\ events = <<>>
    /\ before = <<>>
    /\ prev = NoPrev
    /\ read = NoRead
    /\ conc = NoThreads

OnOffHostSpec == InitHost /\ [][OnOffNext]_vars
----------------------------------------------------------------------------
(* read_attribute and update_state statement by statement, under the mutex *)

\* Mutex::lock without exclusion: the guard is handed out while another is held
lock_NoExclusion(mutex) == TRUE

\* Mutex::lock: returns its guard once no other guard is alive
lock(mutex) == mutex = "free"

\* the read gets as far as the locked section of read_attribute
ReachesLock(base, attr_id, allow) ==
    LET i == AttrIndex(base, attr_id) IN
    /\ i # 0
    /\ "READ" \in base[i].access /\ allow
    /\ ~is_system_attr(attr_id)
    /\ base[i].value # Custom

\* the event source takes the lock to call update_state(state)
UpdLock(state) ==
    /\ conc.upd_pc = "idle"
    /\ lock(conc.mutex)
    /\ conc' = [conc EXCEPT !.mutex = "upd", !.upd_pc = "locked", !.upd_arg = state]
    /\ op' = "update_state"
    /\ cmd_req' = NoReq /\ events' = <<>> /\ before' = <<>>
    /\ prev' = NoPrev
    /\ UNCHANGED <<onoff_base, callbacks, update_state, level_base, read>>

\* self.on_off = state
UpdSetOnOff ==
    /\ conc.upd_pc = "locked"
    /\ update_state' = [update_state EXCEPT !.on_off = conc.upd_arg]
    /\ conc' = [conc EXCEPT !.upd_pc = "on_off_set"]
    /\ UNCHANGED <<onoff_base, callbacks, level_base, op, cmd_req, events, before,
                   prev, read>>

\* self.is_fresh = true
UpdSetFresh ==
    /\ conc.upd_pc = "on_off_set"
    /\ update_state' = [update_state EXCEPT !.is_fresh = TRUE]
    /\ conc' = [conc EXCEPT !.upd_pc = "is_fresh_set"]
    /\ UNCHANGED <<onoff_base, callbacks, level_base, op, cmd_req, events, before,
                   prev, read>>

\* the event source drops its guard
UpdUnlock ==
    /\ conc.upd_pc = "is_fresh_set"
    /\ conc' = [conc EXCEPT !.mutex = "free", !.upd_pc = "idle"]
    /\ UNCHANGED <<onoff_base, callbacks, update_state, level_base, op, cmd_req,
                   events, before, prev, read>>

\* read_attribute up to let update_state = self.update_state.lock().unwrap()
RdLock(attr_id, allow) ==
    /\ conc.rd_pc = "idle"
    /\ ReachesLock(onoff_base, attr_id, allow)
    /\ lock(conc.mutex)
    /\ conc' = [conc EXCEPT !.mutex = "rd", !.rd_pc = "locked", !.snap = update_state]
    /\ read' = [attr_id |-> attr_id, allow |-> allow, encoder |-> <<>>]
    /\ op' = "read_attribute"
    /\ cmd_req' = NoReq /\ events' = <<>> /\ before' = <<>>
    /\ prev' = NoPrev
    /\ UNCHANGED <<onoff_base, callbacks, update_state, level_base>>

\* if update_state.is_fresh
RdFresh ==
    /\ conc.rd_pc = "locked"
    /\ conc' = [conc EXCEPT !.rd_pc = "checked", !.rd_fresh = update_state.is_fresh]
    /\ UNCHANGED <<onoff_base, callbacks, update_state, level_base, op, cmd_req,
                   events, before, prev, read>>

\* encoder.encode of AttrValue::Bool(update_state.on_off) or of a.value
RdEncode ==
    /\ conc.rd_pc = "checked"
    /\ read' = [read EXCEPT !.encoder =
                  IF conc.rd_fresh
                  THEN << EncValue(Bool(update_state.on_off)) >>
                  ELSE << EncValue(onoff_base[AttrIndex(onoff_base, read.attr_id)].value) >>]
    /\ conc' = [conc EXCEPT !.rd_pc = "encoded"]
    /\ UNCHANGED <<onoff_base, callbacks, update_state, level_base, op, cmd_req,
                   events, before, prev>>

\* the guard of read_attribute goes out of scope
RdUnlock ==
    /\ conc.rd_pc = "encoded"
    /\ conc' = [conc EXCEPT !.mutex = "free", !.rd_pc = "idle"]
    /\ UNCHANGED <<onoff_base, callbacks, update_state, level_base, op, cmd_req,
                   events, before, prev, read>>

\* the event source and a reporting path run side by side; add_callback and
\* handle_command take &mut self and so never overlap a read_attribute (&self)
OnOffConcNext ==
    \/ \E state \in BOOLEAN : UpdLock(state)
    \/ UpdSetOnOff
    \/ UpdSetFresh
    \/ UpdUnlock
    \/ \E attr_id \in ReadAttrIds, allow \in BOOLEAN : RdLock(attr_id, allow)
    \/ RdFresh
    \/ RdEncode
    \/ RdUnlock
    \/ \E attr_id \in ReadAttrIds, allow \in BOOLEAN :
          /\ conc.rd_pc = "idle"
          /\ ~ReachesLock(onoff_base, attr_id, allow)
          /\ OnOffReadAttribute(attr_id, allow)
    \/ \E cmd \in OnOffCommands : conc.rd_pc = "idle" /\ AddCallback(cmd)
    \/ \E leaf \in OnOffLeafs : conc.rd_pc = "idle" /\ OnOffHandleCommand(leaf)

OnOffConcSpec == Init /\ [][OnOffConcNext]_vars

OnOffSpec == Init /\ [][OnOffNext]_vars
LevelSpec == Init /\ [][LevelNext]_vars
Spec == Init /\ [][Next]_vars

----------------------------------------------------------------------------
(* Vocabulary of the properties *)

ValueOf(base, id) == read_attribute_raw(base, id).value
StoredOnOff == ValueOf(onoff_base, OnOff_Attr_OnOff)
CurrentLevel == ValueOf(level_base, Level_Attr_CurrentLevel).v
MinLevel == ValueOf(level_base, Level_Attr_MinLevel).v
MaxLevel == ValueOf(level_base, Level_Attr_MaxLevel).v

OnOffCmdDone(leaf) ==
    op = "handle_command" /\ cmd_req.cluster = OnOff_ID /\ cmd_req.leaf = leaf
LevelCmdDone(leaf) ==
    op = "handle_command" /\ cmd_req.cluster = Level_ID /\ cmd_req.leaf = leaf

\* the command name a callback is registered under, by command id
NameOfLeaf(leaf) ==
    CASE leaf = 0 -> "Off" [] leaf = 1 -> "On" [] leaf = 2 -> "Toggle"
      [] OTHER -> "None"

\* how often callback i was invoked in a trace of events
Invocations(evs, i) ==
    Cardinality({k \in DOMAIN evs : evs[k].e = "callback" /\ evs[k].n = i})
Wrote(evs) == \E k \in DOMAIN evs : evs[k].e = "write"
WrittenValue(evs) == (CHOOSE k \in DOMAIN evs : evs[k].e = "write")
NoStoreEvent(evs) == \A k \in DOMAIN evs : evs[k].e \notin {"write", "dirty"}
\* every callback registered under name ran exactly once, no other ran
RanOnce(evs, name) ==
    \A i \in DOMAIN callbacks :
        Invocations(evs, i) = IF callbacks[i] = name THEN 1 ELSE 0

Clamp(x, lo, hi) == IF x < lo THEN lo ELSE IF x > hi THEN hi ELSE x

----------------------------------------------------------------------------
(* Properties *)

\* C1: in every state reachable by Level Control commands,
\* MinLevel <= CurrentLevel <= MaxLevel.
C1_LevelWithinMinMax == MinLevel <= CurrentLevel /\ CurrentLevel <= MaxLevel

\* C2: a permitted read of OnOff right after a command that wrote v and returned
\* Success encodes v, also after the event source has called update_state.
C2_ReadAfterWrite ==
    ( /\ op = "read_attribute" /\ read.attr_id = OnOff_Attr_OnOff /\ read.allow
      /\ prev.valid /\ prev.cluster = OnOff_ID /\ prev.status = "Sucess"
      /\ Wrote(prev.events) )
    => read.encoder =
         << EncValue([t |-> "Bool", v |-> prev.events[WrittenValue(prev.events)].n]) >>

\* C3: two Toggle commands in a row both return Success, leave the stored OnOff
\* at the value it had before the first, and run each Toggle callback twice
\* (and no other callback).
C3_ToggleTwice ==
    ( /\ OnOffCmdDone(OnOff_Cmd_Toggle)
      /\ prev.valid /\ prev.cluster = OnOff_ID /\ prev.leaf = OnOff_Cmd_Toggle )
    => /\ prev.status = "Sucess" /\ cmd_req.status = "Sucess"
       /\ StoredOnOff = ValueOf(prev.before, OnOff_Attr_OnOff)
       /\ \A i \in DOMAIN callbacks :
            Invocations(prev.events, i) + Invocations(events, i) =
                IF callbacks[i] = "Toggle" THEN 2 ELSE 0

C3_Witness ==
    /\ OnOffCmdDone(OnOff_Cmd_Toggle)
    /\ prev.valid /\ prev.cluster = OnOff_ID /\ prev.leaf = OnOff_Cmd_Toggle
    /\ ValueOf(prev.before, OnOff_Attr_OnOff) = Bool(TRUE)
    /\ Len(callbacks) = MaxCallbacks
    /\ \E i \in DOMAIN callbacks : callbacks[i] = "Toggle"
    /\ \E i \in DOMAIN callbacks : callbacks[i] # "Toggle"

\* C4: On leaves the stored OnOff true and Off leaves it false, whatever it was;
\* each returns Success, runs the callbacks of that command once and completes
\* the transaction as its last step.
C4_OnOffSetsValue ==
    \A leaf \in {OnOff_Cmd_On, OnOff_Cmd_Off} :
        OnOffCmdDone(leaf) =>
            /\ cmd_req.status = "Sucess"
            /\ StoredOnOff = Bool(leaf = OnOff_Cmd_On)
            /\ RanOnce(events, NameOfLeaf(leaf))
            /\ cmd_req.completed
            /\ events # <<>> /\ events[Len(events)].e = "complete"
            /\ Cardinality({k \in DOMAIN events : events[k].e = "complete"}) = 1

C4_Witness ==
    /\ OnOffCmdDone(OnOff_Cmd_Off)
    /\ ValueOf(before, OnOff_Attr_OnOff) = Bool(TRUE)
    /\ StoredOnOff = Bool(FALSE)
    /\ \E i \in DOMAIN callbacks : callbacks[i] = "Off"
    /\ \E i \in DOMAIN callbacks : callbacks[i] = "On"

\* C5: On when OnOff is already true, and Off when it is already false, write
\* nothing to the attribute store (no dirty marker), return Success and run the
\* command's callbacks once.
C5_NoRedundantWrite ==
    \A leaf \in {OnOff_Cmd_On, OnOff_Cmd_Off} :
        ( OnOffCmdDone(leaf)
          /\ ValueOf(before, OnOff_Attr_OnOff) = Bool(leaf = OnOff_Cmd_On) )
        => /\ NoStoreEvent(events)
           /\ onoff_base = before
           /\ cmd_req.status = "Sucess"
           /\ RanOnce(events, NameOfLeaf(leaf))

C5_Witness ==
    /\ OnOffCmdDone(OnOff_Cmd_On)
    /\ ValueOf(before, OnOff_Attr_OnOff) = Bool(TRUE)
    /\ \E i \in DOMAIN callbacks : callbacks[i] = "On"
    /\ Invocations(events, 1) + Invocations(events, 2) >= 1

\* C6: a well-formed Step(mode, k) returns Success and sets CurrentLevel to
\* clamp(old + k) for Up and clamp(old - k) for Down, within MinLevel..MaxLevel.
C6_StepClamps ==
    ( /\ LevelCmdDone(Level_Cmd_Step)
      /\ cmd_req.data.container /\ Len(cmd_req.data.elems) >= 5
      /\ cmd_req.data.elems[1].t = "u8" /\ cmd_req.data.elems[2].t = "u8" )
    => LET old == ValueOf(before, Level_Attr_CurrentLevel).v
           k == cmd_req.data.elems[2].v
           new == IF cmd_req.data.elems[1].v = 0 THEN old + k ELSE old - k
       IN  /\ cmd_req.status = "Sucess"
           /\ CurrentLevel = Clamp(new, ValueOf(before, Level_Attr_MinLevel).v,
                                   ValueOf(before, Level_Attr_MaxLevel).v)

\* C7: a permitted read of OnOff encodes the shared-state on_off when is_fresh,
\* and the stored attribute value otherwise.
C7_ReadPolicy ==
    ( op = "read_attribute" /\ read.attr_id = OnOff_Attr_OnOff /\ read.allow )
    => read.encoder =
         << IF update_state.is_fresh
            THEN EncValue([t |-> "Bool", v |-> IF update_state.on_off THEN 1 ELSE 0])
            ELSE EncValue(StoredOnOff) >>

C7_Witness ==
    /\ op = "read_attribute" /\ read.attr_id = OnOff_Attr_OnOff /\ read.allow
    /\ update_state = [on_off |-> TRUE, is_fresh |-> TRUE]
    /\ StoredOnOff = Bool(FALSE)
    /\ read.encoder = << EncValue(Bool(TRUE)) >>

\* C8: on either cluster a command whose id is absent or not enumerated returns
\* UnsupportedCommand, changes no attribute, runs no callback and does not
\* complete the transaction.
C8_UnsupportedCommand ==
    /\ ( op = "handle_command" /\ cmd_req.cluster = OnOff_ID
         /\ cmd_req.leaf \notin {OnOff_Cmd_Off, OnOff_Cmd_On, OnOff_Cmd_Toggle} )
       => /\ cmd_req.status = "UnsupportedCommand"
          /\ onoff_base = before
          /\ events = <<>>
          /\ ~cmd_req.completed
    /\ ( op = "handle_command" /\ cmd_req.cluster = Level_ID
         /\ cmd_req.leaf \notin (0..8) )
       => /\ cmd_req.status = "UnsupportedCommand"
          /\ level_base = before
          /\ events = <<>>
          /\ ~cmd_req.completed

C8_Witness ==
    /\ LevelCmdDone(255)
    /\ cmd_req.status = "UnsupportedCommand"
    /\ CurrentLevel # 0
    /\ StoredOnOff = Bool(TRUE)
    /\ Len(callbacks) > 0

\* C9: on a freshly constructed Level Control cluster a well-formed Stop returns
\* Success and leaves RemainingTime = 0 as a u16.
C9_StopZeroesRemainingTime ==
    ( /\ LevelCmdDone(Level_Cmd_Stop)
      /\ before = LevelControlCluster_new
      /\ cmd_req.data.container /\ Len(cmd_req.data.elems) = 2 )
    => /\ cmd_req.status = "Sucess"
       /\ read_attribute_raw(level_base, Level_Attr_RemainingTime) =
            [err |-> "Ok", value |-> [t |-> "Uint16", v |-> 0]]

\* C10: a handled On/Off command runs exactly the callbacks registered for it,
\* each once, in registration order, and none before the attribute write.
C10_CallbackOrder ==
    \A leaf \in {OnOff_Cmd_Off, OnOff_Cmd_On, OnOff_Cmd_Toggle} :
        OnOffCmdDone(leaf) =>
            /\ RanOnce(events, NameOfLeaf(leaf))
            /\ \A j, k \in DOMAIN events :
                 (events[j].e = "callback" /\ events[k].e = "callback" /\ j < k)
                    => events[j].n < events[k].n
            /\ \A j, k \in DOMAIN events :
                 (events[j].e = "write" /\ events[k].e = "callback") => j < k
            /\ (\E k \in DOMAIN events : events[k].e = "callback")
                 => cmd_req.status = "Sucess"

C10_Witness ==
    /\ OnOffCmdDone(OnOff_Cmd_Toggle)
    /\ callbacks = << "Toggle", "Toggle" >>
    /\ Wrote(events)
    /\ Invocations(events, 1) = 1 /\ Invocations(events, 2) = 1

\* C11: when the attribute write of an On, Off or Toggle command fails, the
\* handler returns Failure, runs no callback, does not complete the transaction
\* and leaves the stored OnOff as it was.
C11_WriteFailure ==
    \A leaf \in {OnOff_Cmd_Off, OnOff_Cmd_On, OnOff_Cmd_Toggle} :
        LET old == ValueOf(before, OnOff_Attr_OnOff)
            target == IF leaf = OnOff_Cmd_Toggle THEN Bool(old # Bool(TRUE))
                      ELSE Bool(leaf = OnOff_Cmd_On)
            attempted == \/ leaf = OnOff_Cmd_Toggle
                         \/ leaf = OnOff_Cmd_On /\ old = Bool(FALSE)
                         \/ leaf = OnOff_Cmd_Off /\ old = Bool(TRUE)
        IN  ( /\ OnOffCmdDone(leaf) /\ attempted
              /\ write_attribute_raw(before, OnOff_Attr_OnOff, target).err # "Ok" )
            => /\ cmd_req.status = "Failure"
               /\ events = <<>>
               /\ ~cmd_req.completed
               /\ onoff_base = before

C11_Witness ==
    /\ OnOffCmdDone(OnOff_Cmd_Toggle)
    /\ cmd_req.status = "Failure"
    /\ "FIXED" \in before[AttrIndex(before, OnOff_Attr_OnOff)].quality
    /\ \E i \in DOMAIN callbacks : callbacks[i] = "Toggle"

\* C12: MoveToLevel with a four-element payload whose first element is the u8
\* level L returns Success, and CurrentLevel read right after it is L.
C12_MoveToLevelRoundTrip ==
    ( /\ LevelCmdDone(Level_Cmd_MoveToLevel)
      /\ cmd_req.data.container /\ Len(cmd_req.data.elems) = 4
      /\ cmd_req.data.elems[1].t = "u8" )
    => /\ cmd_req.status = "Sucess"
       /\ read_attribute_raw(level_base, Level_Attr_CurrentLevel) =
            [err |-> "Ok", value |-> [t |-> "Uint8", v |-> cmd_req.data.elems[1].v]]

C12_Witness ==
    /\ LevelCmdDone(Level_Cmd_MoveToLevel)
    /\ cmd_req.data.container /\ Len(cmd_req.data.elems) = 4
    /\ cmd_req.data.elems[1] = [t |-> "u8", v |-> 250]
    /\ ValueOf(before, Level_Attr_CurrentLevel).v = 10
    /\ CurrentLevel = 250

\* C13: Step(Up, k) followed by Step(Down, k), neither clamped, returns Success
\* twice, leaves CurrentLevel at its starting value and has CurrentLevel at
\* start + k in between.
C13_StepUpDown ==
    ( /\ LevelCmdDone(Level_Cmd_Step)
      /\ prev.valid /\ prev.cluster = Level_ID /\ prev.leaf = Level_Cmd_Step
      /\ prev.data.elems[1].v = 0 /\ cmd_req.data.elems[1].v # 0
      /\ prev.data.elems[2].v = cmd_req.data.elems[2].v
      /\ ValueOf(prev.before, Level_Attr_MinLevel).v
            <= ValueOf(prev.before, Level_Attr_CurrentLevel).v
      /\ ValueOf(prev.before, Level_Attr_CurrentLevel).v + prev.data.elems[2].v
            <= ValueOf(prev.before, Level_Attr_MaxLevel).v )
    => /\ prev.status = "Sucess" /\ cmd_req.status = "Sucess"
       /\ CurrentLevel = ValueOf(prev.before, Level_Attr_CurrentLevel).v
       /\ ValueOf(before, Level_Attr_CurrentLevel).v =
            ValueOf(prev.before, Level_Attr_CurrentLevel).v + prev.data.elems[2].v

\* C14: a freshly constructed Level Control cluster holds the seven attributes
\* CurrentLevel (0, u8), RemainingTime (1, u16), MinLevel (2, u8, 0),
\* MaxLevel (3, u8, 254), Options (0x0F), OnLevel (0x11, u8) and
\* StartUpCurrentLevel (0x4000, u8), each id once.
C14_FreshAttributes ==
    op = "new" =>
        /\ \A id \in {Level_Attr_CurrentLevel, Level_Attr_RemainingTime,
                       Level_Attr_MinLevel, Level_Attr_MaxLevel, Level_Attr_Options,
                       Level_Attr_OnLevel, Level_Attr_StartUpCurrentLevel} :
              Cardinality({i \in DOMAIN level_base : level_base[i].id = id}) = 1
        /\ \A id \in {Level_Attr_CurrentLevel, Level_Attr_MinLevel, Level_Attr_MaxLevel,
                       Level_Attr_OnLevel, Level_Attr_StartUpCurrentLevel} :
              ValueOf(level_base, id).t = "Uint8"
        /\ ValueOf(level_base, Level_Attr_RemainingTime).t = "Uint16"
        /\ ValueOf(level_base, Level_Attr_MinLevel).v = 0
        /\ ValueOf(level_base, Level_Attr_MaxLevel).v = 254

\* C15: update_state and read_attribute are atomic with respect to each other:
\* while a read is in its locked section no update is under way and the block
\* is the one the read found when it took the lock, and what the read encodes
\* is the value that block selects (never a half-updated block).
C15_AtomicRead ==
    /\ conc.rd_pc # "idle" => (conc.upd_pc = "idle" /\ update_state = conc.snap)
    /\ conc.rd_pc = "encoded" =>
          read.encoder =
            << EncValue(IF conc.snap.is_fresh
                        THEN [t |-> "Bool", v |-> IF conc.snap.on_off THEN 1 ELSE 0]
                        ELSE StoredOnOff) >>

C15_Witness ==
    /\ conc.rd_pc = "encoded"
    /\ conc.snap = [on_off |-> TRUE, is_fresh |-> TRUE]
    /\ StoredOnOff = Bool(FALSE)
    /\ read.encoder = << EncValue(Bool(TRUE)) >>

\* the commands of Level Control that are placeholders
PlaceholderLeafs ==
    {Level_Cmd_MoveToLevelWithOnOff, Level_Cmd_MoveWithOnOff, Level_Cmd_StepWithOnOff,
     Level_Cmd_StopWithOnOff, Level_Cmd_MoveToClosestFrequency}
\* a payload handle_move walks to its end
MoveAccepts(data) ==
    /\ data.container /\ Len(data.elems) >= 4
    /\ data.elems[1].t = "u8" /\ data.elems[2].t = "u8"

\* C16: MoveToClosestFrequency, the four *WithOnOff commands (any payload) and
\* Move (any payload its handler accepts) return Success and leave every
\* attribute of the cluster unchanged.
C16_PlaceholderNoOp ==
    ( /\ op = "handle_command" /\ cmd_req.cluster = Level_ID
      /\ \/ cmd_req.leaf \in PlaceholderLeafs
         \/ cmd_req.leaf = Level_Cmd_Move /\ MoveAccepts(cmd_req.data) )
    => /\ cmd_req.status = "Sucess"
       /\ level_base = before
       /\ events = <<>>

C16_Witness ==
    /\ LevelCmdDone(Level_Cmd_Move) /\ MoveAccepts(cmd_req.data)
    /\ cmd_req.data.elems[1].v = 0
    /\ cmd_req.status = "Sucess"
    /\ CurrentLevel = 10 /\ level_base = before

\* C17: after a successful MoveToLevelWithOnOff carrying level L on an endpoint
\* that also hosts the On/Off cluster, CurrentLevel is L and the stored OnOff
\* is false if L = 0 and true otherwise.
C17_WithOnOffCoupling ==
    ( /\ LevelCmdDone(Level_Cmd_MoveToLevelWithOnOff)
      /\ cmd_req.status = "Sucess"
      /\ cmd_req.data.container /\ Len(cmd_req.data.elems) >= 4
      /\ cmd_req.data.elems[1].t = "u8" )
    => /\ CurrentLevel = cmd_req.data.elems[1].v
       /\ StoredOnOff = Bool(cmd_req.data.elems[1].v # 0)

\* a permitted read of the OnOff attribute has just been answered
PermittedOnOffRead ==
    op = "read_attribute" /\ read.attr_id = OnOff_Attr_OnOff /\ read.allow

\* C18: once update_state has been called, is_fresh stays true in every later
\* state and only another update_state changes the shared block (no command
\* and no read resets it), so from then on every permitted read of OnOff
\* encodes the last value given to update_state, whatever the commands have
\* stored since.
C18_FreshForever ==
    /\ [][update_state.is_fresh =>
            /\ update_state'.is_fresh
            /\ (op' # "update_state" => update_state' = update_state)]_vars
    /\ []((PermittedOnOffRead /\ update_state.is_fresh)
            => read.encoder = << EncValue(Bool(update_state.on_off)) >>)

C18_Witness ==
    /\ PermittedOnOffRead /\ update_state.is_fresh
    /\ prev.valid /\ prev.cluster = OnOff_ID /\ prev.leaf = OnOff_Cmd_Toggle
    /\ prev.status = "Sucess" /\ Wrote(prev.events)
    /\ update_state.on_off = FALSE /\ StoredOnOff = Bool(TRUE)
    /\ read.encoder = << EncValue(Bool(FALSE)) >>

\* the number of positional elements each handler takes from its payload
Consumed(leaf) ==
    CASE leaf = Level_Cmd_MoveToLevel -> 4
      [] leaf = Level_Cmd_Move -> 4
      [] leaf = Level_Cmd_Step -> 5
      [] leaf = Level_Cmd_Stop -> 2
\* a payload that is no container, is too short for the handler, or whose
\* mode or rate/size element (Move and Step) is not a u8
Malformed(leaf, data) ==
    \/ ~data.container
    \/ Len(data.elems) < Consumed(leaf)
    \/ /\ leaf \in {Level_Cmd_Move, Level_Cmd_Step}
       /\ \E i \in {1, 2} : data.elems[i].t # "u8"

\* C19: a MoveToLevel, Move, Step or Stop command with a malformed payload
\* returns a status other than Success and leaves every attribute of the
\* cluster unchanged.
C19_MalformedPayload ==
    ( /\ op = "handle_command" /\ cmd_req.cluster = Level_ID
      /\ cmd_req.leaf \in {Level_Cmd_MoveToLevel, Level_Cmd_Move, Level_Cmd_Step,
                           Level_Cmd_Stop}
      /\ Malformed(cmd_req.leaf, cmd_req.data) )
    => /\ cmd_req.status # "Sucess"
       /\ level_base = before
       /\ events = <<>>

C19_Witness ==
    /\ LevelCmdDone(Level_Cmd_Step)
    /\ cmd_req.data.container /\ Len(cmd_req.data.elems) = 4
    /\ cmd_req.data.elems[1].t = "u8" /\ cmd_req.data.elems[2].t = "u8"
    /\ cmd_req.status = "Invalid"
    /\ CurrentLevel = 10 /\ level_base = before

\* C20: every read_attribute of the On/Off cluster hands the encoder exactly one
\* output, and that output is a status and no value when the read is not
\* allowed: UnsupportedAttribute for an unknown id, UnsupportedAccess when the
\* ACL denies (also when the Read bit is missing too), UnsupportedRead when the
\* ACL allows and the attribute lacks the Read bit.
C20_ReadStatus ==
    op = "read_attribute" =>
      LET i == AttrIndex(onoff_base, read.attr_id) IN
      /\ Len(read.encoder) = 1
      /\ i = 0 => read.encoder = << EncStatus("UnsupportedAttribute") >>
      /\ (i # 0 /\ ~read.allow) => read.encoder = << EncStatus("UnsupportedAccess") >>
      /\ (i # 0 /\ read.allow /\ "READ" \notin onoff_base[i].access)
           => read.encoder = << EncStatus("UnsupportedRead") >>
      /\ (i = 0 \/ ~read.allow \/ "READ" \notin onoff_base[i].access)
           => (read.encoder[1].kind = "Status" /\ read.encoder[1].value = NoValue)

C20_Witness ==
    /\ op = "read_attribute" /\ read.attr_id = OnOff_Attr_OnOff
    /\ ~read.allow
    /\ "READ" \notin onoff_base[AttrIndex(onoff_base, OnOff_Attr_OnOff)].access
    /\ update_state.is_fresh
    /\ read.encoder = << EncStatus("UnsupportedAccess") >>

\* the two bases hold the same attributes and differ at most in the value of
\* the OnOff attribute
OnlyOnOffValueChanged(old, new) ==
    /\ DOMAIN new = DOMAIN old
    /\ \A i \in DOMAIN old :
         \/ new[i] = old[i]
         \/ /\ old[i].id = OnOff_Attr_OnOff
            /\ new[i] = [old[i] EXCEPT !.value = new[i].value]

\* C21: the two On/Off stores are written by disjoint actions: update_state
\* changes only the shared block (not the attribute store, and it runs no
\* callback); a command changes at most the value of the stored OnOff
\* attribute and never the shared block; read_attribute changes neither.
C21_DisjointStores ==
    [][ /\ op' = "update_state" =>
             /\ onoff_base' = onoff_base
             /\ \A k \in DOMAIN events' : events'[k].e # "callback"
        /\ op' = "handle_command" =>
             /\ update_state' = update_state
             /\ OnlyOnOffValueChanged(onoff_base, onoff_base')
        /\ op' = "read_attribute" =>
             /\ onoff_base' = onoff_base
             /\ update_state' = update_state ]_vars

C21_Witness ==
    /\ OnOffCmdDone(OnOff_Cmd_On) /\ cmd_req.status = "Sucess" /\ Wrote(events)
    /\ update_state = [on_off |-> FALSE, is_fresh |-> TRUE]
    /\ StoredOnOff = Bool(TRUE)
    /\ before # onoff_base

====
